---------------------------- MODULE Spec2Model ----------------------------
(***************************************************************************)
(* The emotion dashboard of src/main.py as a state machine: the session    *)
(* history, the analyser, the three acquisition tabs (Upload, Capture,     *)
(* Live), the card renderer and the CSV export.                            *)
(*                                                                         *)
(* Real numbers (probabilities, confidences, the threshold) are fixed      *)
(* point integers with Unit steps per 1.0, so 82.6 is 8260000. The clock   *)
(* counts whole seconds.                                                   *)
(***************************************************************************)
EXTENDS Integers, Sequences, FiniteSets, TLC

VARIABLES
    tab,          \* the tab the tabs() widget returns
    history,      \* st.session_state.history
    exportFile,   \* the lines of emotion_history.csv, <<>> while never written
    exportSnap,   \* ghost: the history at the moment of the last export
    openCaps,     \* number of cv2.VideoCapture(0) handles opened and not released
    livePc,       \* position of the Live handler: idle, loop, release, done, aborted
    wall,         \* the last reading of datetime.now(), in seconds
    now,          \* time.time(), in seconds, counted from the Live handler's start
    start,        \* start = time.time() of the Live handler
    error,        \* the error the last script run showed, "none" if none
    threshold,    \* the threshold argument of a direct analyze_emotions call
    results,      \* the detector's output in the last direct call
    cards,        \* the cards the last direct call returned
    drawn,        \* the face numbers the last direct call annotated on the frame
    bars,         \* the bar widths display_cards rendered for those cards
    lastBase,     \* ghost: len(history) when the last direct call began
    qualSeen,     \* ghost: detections at or over the threshold seen so far
    liveReads,    \* ghost: cap.read() calls of the current Live run
    liveCalls,    \* ghost: analyze_emotions calls of the current Live run
    liveReleases, \* ghost: cap.release() calls of the current Live run
    readFailed    \* ghost: a cap.read() of the current Live run returned ret = False

vars == <<tab, history, exportFile, exportSnap, openCaps, livePc, wall, now,
          start, error, threshold, results, cards, drawn, bars, lastBase,
          qualSeen, liveReads, liveCalls, liveReleases, readFailed>>

-----------------------------------------------------------------------------
(* Bounds of the model *)

MaxFaces == 2     \* faces in one detector output
MaxHist == 2      \* history entries in a session
MaxWork == 1      \* seconds one frame's analysis and rendering may take
MaxCaps == 2      \* camera handles open together

(* Program constants *)

DefaultThreshold == 50
LiveBudget == 60
LiveDelay == 5

Unit == 10 ^ 5

-----------------------------------------------------------------------------
(* The detector's outputs: sequences of emotion mappings, each a sequence  *)
(* of <<name, probability>> in the mapping's iteration order, the          *)
(* probability in steps of 1 / Unit. The three mappings give a confidence  *)
(* of 82.637, of 50.0 exactly (a tie of two emotions) and of 49.996.       *)

EmotionMaps ==
    { << <<"happy", 82637>>, <<"sad", 10000>>, <<"neutral", 7363>> >>,
      << <<"sad", 50000>>, <<"happy", 50000>> >>,
      << <<"angry", 30000>>, <<"neutral", 49996>>, <<"fear", 20004>> >> }

DetectorOutputs == UNION { [1..n -> EmotionMaps] : n \in 0..MaxFaces }

StubOutputs == {res \in DetectorOutputs : Len(res) <= 1}

Thresholds == {0, DefaultThreshold * Unit, 90 * Unit}

(* max(emotions.items(), key=lambda x: x[1]): the first pair whose         *)
(* probability no other exceeds.                                           *)
ArgMax(emotions) ==
    LET best == CHOOSE i \in 1..Len(emotions) :
                  /\ \A j \in 1..Len(emotions) : emotions[j][2] <= emotions[i][2]
                  /\ \A j \in 1..(i - 1) : emotions[j][2] < emotions[i][2]
    IN  emotions[best]

(* round(conf, 2): the nearest multiple of 0.01, a tie to the even one. *)
Round2(conf) ==
    LET step == Unit \div 100
        q == conf \div step
        r == conf % step
    IN  IF 2 * r < step THEN q * step
        ELSE IF 2 * r > step THEN (q + 1) * step
        ELSE IF q % 2 = 0 THEN q * step ELSE (q + 1) * step

DigitChars == <<"0", "1", "2", "3", "4", "5", "6", "7", "8", "9">>

DigitChar(d) == DigitChars[d + 1]

DigitVal(c) == CHOOSE d \in 0..9 : DigitChars[d + 1] = c

TwoDigits(n) == <<DigitChar((n \div 10) % 10), DigitChar(n % 10)>>

(* datetime.now().strftime("%Y-%m-%d %H:%M:%S"), the date left out: a text, *)
(* a sequence of one-character strings.                                     *)
Strftime(t) ==
    TwoDigits(t \div 3600) \o <<":">> \o TwoDigits((t \div 60) % 60)
        \o <<":">> \o TwoDigits(t % 60)

(* Mutants of AnalyzeStep: the threshold tested on the rounded confidence, *)
(* the threshold test left out, the cards numbered by their count, and the *)
(* history entry appended before the threshold test.                       *)
AnalyzeStepRounded(acc, i, result, hasFrame, thr, t) ==
    LET top == ArgMax(result)
        mood == top[1]
        conf == top[2] * 100
    IN  IF Round2(conf) < thr THEN acc
        ELSE [ history |-> Append(acc.history,
                             [ timestamp |-> Strftime(t), face |-> i,
                               emotion |-> mood, confidence |-> Round2(conf) ]),
               wall |-> t,
               drawn |-> IF hasFrame THEN Append(acc.drawn, i) ELSE acc.drawn,
               cards |-> Append(acc.cards,
                             [ index |-> i, emotion |-> mood, confidence |-> conf ]) ]

AnalyzeStepUnfiltered(acc, i, result, hasFrame, thr, t) ==
    LET top == ArgMax(result)
        mood == top[1]
        conf == top[2] * 100
    IN  [ history |-> Append(acc.history,
                        [ timestamp |-> Strftime(t), face |-> i,
                          emotion |-> mood, confidence |-> Round2(conf) ]),
          wall |-> t,
          drawn |-> IF hasFrame THEN Append(acc.drawn, i) ELSE acc.drawn,
          cards |-> Append(acc.cards,
                        [ index |-> i, emotion |-> mood, confidence |-> conf ]) ]

AnalyzeStepRenumbered(acc, i, result, hasFrame, thr, t) ==
    LET top == ArgMax(result)
        mood == top[1]
        conf == top[2] * 100
        n == Len(acc.cards) + 1
    IN  IF conf < thr THEN acc
        ELSE [ history |-> Append(acc.history,
                             [ timestamp |-> Strftime(t), face |-> n,
                               emotion |-> mood, confidence |-> Round2(conf) ]),
               wall |-> t,
               drawn |-> IF hasFrame THEN Append(acc.drawn, n) ELSE acc.drawn,
               cards |-> Append(acc.cards,
                             [ index |-> n, emotion |-> mood, confidence |-> conf ]) ]

AnalyzeStepLogsFirst(acc, i, result, hasFrame, thr, t) ==
    LET top == ArgMax(result)
        mood == top[1]
        conf == top[2] * 100
        logged == Append(acc.history,
                         [ timestamp |-> Strftime(t), face |-> i,
                           emotion |-> mood, confidence |-> Round2(conf) ])
    IN  IF conf < thr THEN [acc EXCEPT !.history = logged, !.wall = t]
        ELSE [ history |-> logged,
               wall |-> t,
               drawn |-> IF hasFrame THEN Append(acc.drawn, i) ELSE acc.drawn,
               cards |-> Append(acc.cards,
                             [ index |-> i, emotion |-> mood, confidence |-> conf ]) ]

(* One pass of the loop body of analyze_emotions over results[i], face    *)
(* number i. The clock is read for a face that passes the threshold and    *)
(* reads t.                                                                *)
AnalyzeStep(acc, i, result, hasFrame, thr, t) ==
    LET top == ArgMax(result)
        mood == top[1]
        conf == top[2] * 100
    IN  IF conf < thr THEN acc
        ELSE [ history |-> Append(acc.history,
                             [ timestamp |-> Strftime(t), face |-> i,
                               emotion |-> mood, confidence |-> Round2(conf) ]),
               wall |-> t,
               drawn |-> IF hasFrame THEN Append(acc.drawn, i) ELSE acc.drawn,
               cards |-> Append(acc.cards,
                             [ index |-> i, emotion |-> mood, confidence |-> conf ]) ]

RECURSIVE AnalyzeLoop(_, _, _, _, _, _)
AnalyzeLoop(acc, i, res, hasFrame, thr, t) ==
    IF i > Len(res) THEN acc
    ELSE AnalyzeLoop(AnalyzeStep(acc, i, res[i], hasFrame, thr, t),
                     i + 1, res, hasFrame, thr, t)

(* analyze_emotions(image_bytes, frame, threshold) on a decodable image    *)
(* for which the detector returns res, with the session's history hist,    *)
(* the last reading of the clock w, and the clock at t during the call:    *)
(* the new history and last reading, the cards and the annotations.        *)
AnalyzeEmotions(hist, w, res, hasFrame, thr, t) ==
    AnalyzeLoop([history |-> hist, wall |-> w, drawn |-> <<>>, cards |-> <<>>],
                1, res, hasFrame, thr, t)

(* Mutant of BarWidth: round(confidence) for int(confidence). *)
BarWidthRounded(c) == (c.confidence + Unit \div 2) \div Unit

(* display_cards: the width of each card's bar, int(confidence). *)
BarWidth(c) == c.confidence \div Unit

DisplayCards(cs) == [k \in 1..Len(cs) |-> BarWidth(cs[k])]

Qualifying(res, thr) == {i \in 1..Len(res) : ArgMax(res[i])[2] * 100 >= thr}

-----------------------------------------------------------------------------
(* The export: pd.DataFrame(history).to_csv("emotion_history.csv",         *)
(* index=False). A text is a sequence of one-character strings (an emotion *)
(* name is one token); a file is a sequence of lines.                      *)

RECURSIVE FormatInt(_)
FormatInt(n) ==
    IF n < 10 THEN <<DigitChar(n)>>
    ELSE Append(FormatInt(n \div 10), DigitChar(n % 10))

RECURSIVE PadDigits(_, _)
PadDigits(n, width) ==
    IF width = 0 THEN <<>>
    ELSE Append(PadDigits(n \div 10, width - 1), DigitChar(n % 10))

RECURSIVE StripZeros(_)
StripZeros(s) ==
    IF Len(s) > 1 /\ s[Len(s)] = "0" THEN StripZeros(SubSeq(s, 1, Len(s) - 1))
    ELSE s

(* repr of a float: the whole part, a point, the fraction without its      *)
(* trailing zeros but with one digit at least (82.6, 50.0, 91.23).         *)
FormatFloat(x) ==
    FormatInt(x \div Unit) \o <<".">> \o StripZeros(PadDigits(x % Unit, 5))

CsvHeader == <<"timestamp", ",", "face", ",", "emotion", ",", "confidence">>

CsvLine(e) ==
    e.timestamp \o <<",">> \o FormatInt(e.face) \o <<",">> \o <<e.emotion>>
        \o <<",">> \o FormatFloat(e.confidence)

(* Mutant of ToCsv: the path opened for appending. *)
ToCsvAppending(old, hist) ==
    old \o <<CsvHeader>> \o [k \in 1..Len(hist) |-> CsvLine(hist[k])]

(* to_csv opens the path for writing: the file holds the frame's lines and *)
(* nothing of what it held before.                                         *)
ToCsv(old, hist) == <<CsvHeader>> \o [k \in 1..Len(hist) |-> CsvLine(hist[k])]

-----------------------------------------------------------------------------
(* A call of analyze_emotions. *)

(* The detector's outputs that keep the history within the model's bound. *)
Fits(res, thr) == Len(history) + Cardinality(Qualifying(res, thr)) <= MaxHist

(* What datetime.now() reads during a call: the clock has moved on since   *)
(* the last call that read it, and a call is over within the second.       *)
Readings == {wall + 1}

(* The call over the detector's output res returns r: what it leaves in   *)
(* the session.                                                            *)
CallReturns(r, res, thr) ==
    /\ history' = r.history
    /\ qualSeen' = qualSeen + Cardinality(Qualifying(res, thr))
    /\ wall' = r.wall
    /\ error' = "none"

(* Mutant of CallRaises: the history set up anew on every script run, so   *)
(* that the run that fails finds it empty.                                 *)
CallRaisesResetting(what) ==
    /\ error' = what
    /\ history' = <<>>
    /\ UNCHANGED <<qualSeen, wall>>

(* cv2.imdecode gives None for bytes that are no image and the detector    *)
(* raises on it, or the detector raises on a decoded image: the exception  *)
(* leaves analyze_emotions before its loop and ends the script run.        *)
CallRaises(what) ==
    /\ error' = what
    /\ UNCHANGED <<history, qualSeen, wall>>

(* analyze_emotions called from a handler of the page, with the default    *)
(* threshold and the decoded frame. What the handler renders goes to the   *)
(* browser and is no state of the session.                                 *)
HandlerCall(outs) ==
    \E res \in outs :
        /\ Fits(res, DefaultThreshold * Unit)
        /\ \E t \in Readings :
              CallReturns(AnalyzeEmotions(history, wall, res, TRUE,
                                          DefaultThreshold * Unit, t),
                          res, DefaultThreshold * Unit)

liveVars == <<livePc, now, start, liveReads, liveCalls, liveReleases, readFailed>>

exportVars == <<exportFile, exportSnap>>

callVars == <<history, qualSeen, wall>>

seenVars == <<threshold, results, cards, drawn, bars, lastBase>>

-----------------------------------------------------------------------------
(* The state of a fresh session. *)
Fresh ==
    /\ tab = "Home"
    /\ history = <<>>
    /\ exportFile = <<>>
    /\ exportSnap = <<>>
    /\ openCaps = 0
    /\ livePc = "idle"
    /\ wall = 0
    /\ now = 0
    /\ start = 0
    /\ error = "none"
    /\ results = <<>>
    /\ cards = <<>>
    /\ drawn = <<>>
    /\ bars = <<>>
    /\ lastBase = 0
    /\ qualSeen = 0
    /\ liveReads = 0
    /\ liveCalls = 0
    /\ liveReleases = 0
    /\ readFailed = FALSE

Init == Fresh /\ threshold = DefaultThreshold * Unit

Tabs == {"Home", "Upload", "Capture", "Live"}

(* The user picks a tab; the script reruns and renders it. *)
SelectTab ==
    /\ livePc = "idle"
    /\ \E t \in Tabs \ {tab} : tab' = t
    /\ error' = "none"
    /\ UNCHANGED openCaps
    /\ UNCHANGED callVars
    /\ UNCHANGED liveVars
    /\ UNCHANGED exportVars
    /\ UNCHANGED seenVars

(* Upload tab with a file in the uploader. *)
Upload ==
    /\ tab = "Upload"
    /\ livePc = "idle"
    /\ \/ CallRaises("DecodeError")
       \/ CallRaises("DetectorError")
       \/ HandlerCall(DetectorOutputs)
    /\ UNCHANGED <<tab, openCaps>>
    /\ UNCHANGED seenVars
    /\ UNCHANGED liveVars
    /\ UNCHANGED exportVars

(* Capture tab, the Snap button: open, sleep a second, read one frame,     *)
(* release, then analyse the frame if the read succeeded.                  *)
Snap ==
    /\ tab = "Capture"
    /\ livePc = "idle"
    /\ openCaps < MaxCaps
    /\ openCaps' = (openCaps + 1) - 1
    /\ \/ /\ error' = "Failed to capture image."
          /\ UNCHANGED callVars
       \/ CallRaises("DetectorError")
       \/ HandlerCall(DetectorOutputs)
    /\ UNCHANGED tab
    /\ UNCHANGED seenVars
    /\ UNCHANGED liveVars
    /\ UNCHANGED exportVars

(* Live tab, the Start Live button: open the camera, note the start and    *)
(* enter the loop.                                                         *)
StartLive ==
    /\ tab = "Live"
    /\ livePc = "idle"
    /\ openCaps < MaxCaps
    /\ openCaps' = openCaps + 1
    /\ start' = now
    /\ livePc' = IF now - start' < LiveBudget THEN "loop" ELSE "release"
    /\ error' = "none"
    /\ UNCHANGED <<tab, now, liveReads, liveCalls, liveReleases, readFailed>>
    /\ UNCHANGED callVars
    /\ UNCHANGED exportVars
    /\ UNCHANGED seenVars

(* Mutants of LiveIteration: a failed read goes round the loop again       *)
(* (continue for break), and the loop sleeps a second for five.            *)
LiveIterationRetrying(work, outs) ==
    /\ livePc = "loop"
    /\ liveReads' = liveReads + 1
    /\ \/ /\ livePc' = "loop"
          /\ error' = "Webcam error."
          /\ readFailed' = TRUE
          /\ UNCHANGED <<now, liveCalls>>
          /\ UNCHANGED callVars
       \/ /\ liveCalls' = liveCalls + 1
          /\ UNCHANGED readFailed
          /\ \E d \in work :
                \/ /\ CallRaises("DetectorError")
                   /\ now' = now + d
                   /\ livePc' = "aborted"
                \/ /\ HandlerCall(outs)
                   /\ now' = now + d + LiveDelay
                   /\ livePc' = IF now' - start < LiveBudget THEN "loop" ELSE "release"
    /\ UNCHANGED <<tab, openCaps, start, liveReleases>>
    /\ UNCHANGED exportVars
    /\ UNCHANGED seenVars

LiveIterationUnpaced(work, outs) ==
    /\ livePc = "loop"
    /\ liveReads' = liveReads + 1
    /\ \/ /\ livePc' = "release"
          /\ error' = "Webcam error."
          /\ readFailed' = TRUE
          /\ UNCHANGED <<now, liveCalls>>
          /\ UNCHANGED callVars
       \/ /\ liveCalls' = liveCalls + 1
          /\ UNCHANGED readFailed
          /\ \E d \in work :
                \/ /\ CallRaises("DetectorError")
                   /\ now' = now + d
                   /\ livePc' = "aborted"
                \/ /\ HandlerCall(outs)
                   /\ now' = now + d + 1
                   /\ livePc' = IF now' - start < LiveBudget THEN "loop" ELSE "release"
    /\ UNCHANGED <<tab, openCaps, start, liveReleases>>
    /\ UNCHANGED exportVars
    /\ UNCHANGED seenVars

(* One pass of the loop body and the test of the loop's condition after it.*)
(* A failed read breaks out of the loop. An exception of the analysis      *)
(* leaves the handler: nothing after the loop runs. The frame's analysis   *)
(* and rendering take one of the times in work, the detector returns one   *)
(* of outs or raises.                                                      *)
LiveIteration(work, outs) ==
    /\ livePc = "loop"
    /\ liveReads' = liveReads + 1
    /\ \/ /\ livePc' = "release"
          /\ error' = "Webcam error."
          /\ readFailed' = TRUE
          /\ UNCHANGED <<now, liveCalls>>
          /\ UNCHANGED callVars
       \/ /\ liveCalls' = liveCalls + 1
          /\ UNCHANGED readFailed
          /\ \E d \in work :
                \/ /\ CallRaises("DetectorError")
                   /\ now' = now + d
                   /\ livePc' = "aborted"
                \/ /\ HandlerCall(outs)
                   /\ now' = now + d + LiveDelay
                   /\ livePc' = IF now' - start < LiveBudget THEN "loop" ELSE "release"
    /\ UNCHANGED <<tab, openCaps, start, liveReleases>>
    /\ UNCHANGED exportVars
    /\ UNCHANGED seenVars

(* cap.release() after the loop. *)
LiveRelease ==
    /\ livePc = "release"
    /\ openCaps' = openCaps - 1
    /\ liveReleases' = liveReleases + 1
    /\ livePc' = "done"
    /\ UNCHANGED <<tab, now, error, start, liveReads, liveCalls, readFailed>>
    /\ UNCHANGED callVars
    /\ UNCHANGED exportVars
    /\ UNCHANGED seenVars

(* The script run ends, after the loop or by the exception, and its local  *)
(* variables with it.                                                      *)
LiveEnd ==
    /\ livePc \in {"done", "aborted"}
    /\ livePc' = "idle"
    /\ now' = 0
    /\ start' = 0
    /\ liveReads' = 0
    /\ liveCalls' = 0
    /\ liveReleases' = 0
    /\ readFailed' = FALSE
    /\ UNCHANGED <<tab, openCaps, error>>
    /\ UNCHANGED callVars
    /\ UNCHANGED exportVars
    /\ UNCHANGED seenVars

(* Home tab, the export button, shown while the history is not empty. *)
Export ==
    /\ tab = "Home"
    /\ livePc = "idle"
    /\ Len(history) > 0
    /\ exportFile' = ToCsv(exportFile, history)
    /\ exportSnap' = history
    /\ error' = "none"
    /\ UNCHANGED <<tab, openCaps>>
    /\ UNCHANGED callVars
    /\ UNCHANGED liveVars
    /\ UNCHANGED seenVars

(* analyze_emotions and display_cards called directly, with any threshold, *)
(* with or without a frame: the caller sees what they return.              *)
DirectCall ==
    \E res \in DetectorOutputs, hasFrame \in BOOLEAN :
        /\ Fits(res, threshold)
        /\ \E t \in Readings :
              LET r == AnalyzeEmotions(history, wall, res, hasFrame, threshold, t)
              IN  /\ CallReturns(r, res, threshold)
                  /\ results' = res
                  /\ cards' = r.cards
                  /\ drawn' = r.drawn
                  /\ bars' = DisplayCards(r.cards)
                  /\ lastBase' = Len(history)
        /\ UNCHANGED <<tab, openCaps, threshold>>
        /\ UNCHANGED liveVars
        /\ UNCHANGED exportVars

InitCall == Fresh /\ threshold \in Thresholds

CallSpec == InitCall /\ [][DirectCall]_vars

(* The session, every frame analysed and rendered within the second. *)
LiveStep == LiveIteration({0}, DetectorOutputs) \/ LiveRelease \/ LiveEnd

Next == SelectTab \/ Upload \/ Snap \/ StartLive \/ LiveStep \/ Export

Spec == Init /\ [][Next]_vars

(* A session of the Live tab alone in which a frame's analysis and         *)
(* rendering take time and the detector finds one face at most. The script *)
(* runs on one thread and a started handler keeps running.                 *)
TimedStep == LiveIteration(0..MaxWork, StubOutputs) \/ LiveRelease \/ LiveEnd

TimedNext == SelectTab \/ StartLive \/ TimedStep

TimedSpec == Init /\ [][TimedNext]_vars /\ WF_vars(TimedStep)

-----------------------------------------------------------------------------
(* Reading emotion_history.csv back, as pd.read_csv does: the lines after  *)
(* the header, split at the commas, face as an integer and confidence as a *)
(* float.                                                                  *)

RECURSIVE ParseInt(_)
ParseInt(s) ==
    IF Len(s) = 0 THEN 0
    ELSE 10 * ParseInt(SubSeq(s, 1, Len(s) - 1)) + DigitVal(s[Len(s)])

RECURSIVE Split(_)
Split(line) ==
    IF \A i \in 1..Len(line) : line[i] # "," THEN <<line>>
    ELSE LET c == CHOOSE i \in 1..Len(line) :
                    line[i] = "," /\ \A j \in 1..(i - 1) : line[j] # ","
         IN  <<SubSeq(line, 1, c - 1)>> \o Split(SubSeq(line, c + 1, Len(line)))

ParseFloat(s) ==
    LET p == CHOOSE i \in 1..Len(s) : s[i] = "."
        frac == SubSeq(s, p + 1, Len(s))
    IN  ParseInt(SubSeq(s, 1, p - 1)) * Unit + ParseInt(frac) * 10 ^ (5 - Len(frac))

ParseLine(line) ==
    LET f == Split(line)
    IN  [ timestamp |-> f[1], face |-> ParseInt(f[2]), emotion |-> f[3][1],
          confidence |-> ParseFloat(f[4]) ]

ParseCsv(file) == [k \in 1..(Len(file) - 1) |-> ParseLine(file[k + 1])]

-----------------------------------------------------------------------------
(* C1: every card a call of analyze_emotions returns has a confidence at   *)
(* or over the call's threshold, whatever the detector returned and        *)
(* whatever the threshold.                                                 *)
C1_CardsMeetThreshold ==
    \A k \in 1..Len(cards) : cards[k].confidence >= threshold

(* A call that kept a face exactly at the threshold and dropped another. *)
C1_Witness ==
    /\ Len(results) > Len(cards)
    /\ \E k \in 1..Len(cards) : cards[k].confidence = threshold

(* C2: a call returns no more cards than the detector returned faces, and  *)
(* as many exactly when every face's top confidence is at or over the      *)
(* threshold.                                                              *)
C2_CardCount ==
    /\ Len(cards) <= Len(results)
    /\ (Len(cards) = Len(results))
         <=> (\A i \in 1..Len(results) : ArgMax(results[i])[2] * 100 >= threshold)

(* A call over two faces that returned one card. *)
C2_Witness == Len(results) = 2 /\ Len(cards) = 1

(* C9: in one call the history entries appended and the cards returned are *)
(* the faces at or over the threshold, in the detector's order, each with  *)
(* its position in the detector's output as face number and with its top   *)
(* emotion; a face under the threshold gets no card, no entry and no       *)
(* annotation, and the faces after it keep their numbers.                  *)
C9_EntriesMatchCards ==
    LET new == SubSeq(history, lastBase + 1, Len(history))
        passed == Qualifying(results, threshold)
    IN  /\ Len(new) = Len(cards)
        /\ Len(cards) = Cardinality(passed)
        /\ \A k \in 1..Len(cards) :
              /\ cards[k].index \in passed
              /\ new[k].face = cards[k].index
              /\ new[k].emotion = cards[k].emotion
              /\ cards[k].emotion = ArgMax(results[cards[k].index])[1]
              /\ k > 1 => cards[k - 1].index < cards[k].index
        /\ \A k \in 1..Len(drawn) : drawn[k] \in passed

(* A call whose first face was under the threshold and whose second face   *)
(* got the card and the annotation numbered 2, appended to an older entry. *)
C9_Witness ==
    /\ Len(results) = 2
    /\ Len(cards) = 1
    /\ cards[1].index = 2
    /\ drawn = <<2>>
    /\ lastBase = 1
    /\ history[2].face = 2

(* C10 as the specification words it: the bar's width is the confidence    *)
(* rounded to the nearest whole percent.                                   *)
C10_BarRounded ==
    /\ Len(bars) = Len(cards)
    /\ \A k \in 1..Len(cards) : bars[k] = (cards[k].confidence + Unit \div 2) \div Unit

(* C10, amended: the bar's width is the confidence with its fraction cut   *)
(* off, the largest whole percent not over the confidence.                 *)
C10_BarTruncated ==
    /\ Len(bars) = Len(cards)
    /\ \A k \in 1..Len(cards) :
          /\ bars[k] * Unit <= cards[k].confidence
          /\ cards[k].confidence < (bars[k] + 1) * Unit

(* A rendered card whose confidence is nearer to the next percent. *)
C10_Witness ==
    /\ Len(bars) = Len(cards)
    /\ \E k \in 1..Len(cards) : 2 * (cards[k].confidence % Unit) >= Unit

-----------------------------------------------------------------------------
(* C3: the history holds one entry per detection at or over the threshold  *)
(* seen so far, and no step of the session removes or changes an entry.    *)
C3_HistoryAppendOnly ==
    /\ [](Len(history) = qualSeen)
    /\ [][/\ Len(history') >= Len(history)
          /\ SubSeq(history', 1, Len(history)) = history]_vars

(* A history that grew after an export, during a Live run. *)
C3_Witness ==
    /\ exportSnap # <<>>
    /\ Len(history) > Len(exportSnap)
    /\ livePc = "loop"

(* C4 as the specification words it: at most one camera handle is open at  *)
(* a time and no handler ends with one open.                               *)
C4_CameraReleased ==
    /\ openCaps <= 1
    /\ livePc = "idle" => openCaps = 0

(* C6: a script run that ends with the decode error leaves the history,    *)
(* the export, the camera and the tab as they were, and the session goes   *)
(* on: the tabs and the uploader still answer.                             *)
C6_DecodeErrorAborts ==
    /\ [](error = "DecodeError" => /\ livePc = "idle"
                                   /\ ENABLED SelectTab
                                   /\ ENABLED Upload)
    /\ [][error' = "DecodeError"
            => UNCHANGED <<history, qualSeen, wall, exportFile, openCaps, tab, livePc>>]_vars

(* A decode error in a session that has a history. *)
C6_Witness == error = "DecodeError" /\ Len(history) > 0 /\ tab = "Upload"

(* C7: the exported file is the header and one line per entry of the       *)
(* history as it was at the export, in order, and read back it gives those *)
(* entries.                                                                *)
C7_ExportRoundTrip ==
    exportFile # <<>> =>
        /\ exportSnap # <<>>
        /\ exportFile[1] = CsvHeader
        /\ Len(exportFile) = Len(exportSnap) + 1
        /\ ParseCsv(exportFile) = exportSnap

(* An export of two entries that differ in face, emotion and confidence. *)
C7_Witness ==
    /\ Len(exportFile) = 3
    /\ exportSnap[1].face # exportSnap[2].face
    /\ exportSnap[1].emotion # exportSnap[2].emotion
    /\ exportSnap[1].confidence # exportSnap[2].confidence
    /\ exportSnap = history

(* C8: once a read of a Live run has failed, the run reads no frame and    *)
(* analyses none, appends nothing to the history, releases the camera and  *)
(* ends; the failed frame itself is not analysed.                          *)
C8_ReadFailureEndsRun ==
    /\ [](readFailed => /\ livePc \in {"release", "done"}
                        /\ error = "Webcam error."
                        /\ livePc = "done" => liveReleases = 1)
    /\ [][readFailed' =>
            /\ history' = history
            /\ liveCalls' = liveCalls
            /\ readFailed => liveReads' = liveReads
            /\ livePc = "release" => openCaps' = openCaps - 1]_vars
    /\ [][readFailed /\ ~readFailed' => livePc' = "idle"]_vars

(* A Live run that analysed a frame, logged a face and then failed to read.*)
C8_Witness ==
    /\ readFailed
    /\ livePc = "done"
    /\ liveCalls > 0
    /\ Len(history) > 0

-----------------------------------------------------------------------------
(* C5 as the specification words it: consecutive analysis calls of a Live  *)
(* run are separated by the delay exactly.                                 *)
C5_ExactDelay ==
    [][liveCalls' = liveCalls + 1 /\ livePc' = "loop" => now' - now = LiveDelay]_vars

(* C5, amended: a Live run ends; without a failure it ends at or after the *)
(* budget and has released the camera once; consecutive analysis calls are *)
(* separated by the delay at least (the delay and the time the frame took).*)
C5_LiveRunBounded ==
    /\ [](livePc = "done" /\ ~readFailed
            => now - start >= LiveBudget /\ liveReleases = 1)
    /\ [](liveReleases <= 1 /\ liveCalls <= LiveBudget \div LiveDelay)
    /\ [][liveCalls' = liveCalls + 1 /\ livePc' = "loop"
            => now' - now >= LiveDelay]_vars
    /\ (livePc = "loop" ~> livePc = "idle")

(* A Live run without a failure that ended after the budget, its frames    *)
(* having taken time.                                                      *)
C5_Witness ==
    /\ livePc = "done"
    /\ ~readFailed
    /\ liveCalls > 1
    /\ now - start > LiveBudget

=============================================================================
